---- MODULE Spec2Model ----
(***************************************************************************)
(* Model of streetview/download.py: the panorama download.                 *)
(*                                                                         *)
(*   get_width_and_height_from_zoom  the Dimension Resolver (remote call)   *)
(*   iter_tile_info                  the Tile Locator                      *)
(*   fetch_panorama_tile[_async]     the Tile Fetcher (bounded retry loop)  *)
(*   iter_tiles / iter_tiles_async   the Tile Orchestrator (3 strategies)   *)
(*   get_panorama[_async]            the Panorama Assembler                *)
(*                                                                         *)
(* One behaviour is one download.  The strategy and max_retries are the     *)
(* caller's arguments, fixed in Init.  The answers of the remote services   *)
(* (the metadata lookup, the tile server) are chosen by the environment.    *)
(***************************************************************************)
EXTENDS Integers, Sequences, FiniteSets

\* ---------------------------------------------------------------- bounds

\* A resolver answer describes a grid of at most MaxTiles tiles, and of at
\* most MaxPoolTiles tiles in a download under the pooled strategy.
MaxTiles == 4
MaxPoolTiles == 3
\* max_retries is drawn from -1 .. MaxRetriesBound, and from
\* -1 .. MaxPoolRetries in a download under the pooled strategy.
MaxRetriesBound == 2
MaxPoolRetries == 1
\* Worker threads of the ThreadPoolExecutor (its max_workers).
PoolWorkers == 2
\* Runs of iter_tile_info on the same (pano_id, zoom), when it is run by itself.
MaxRuns == 2

\* ------------------------------------------------------ program constants

tile_width == 512
tile_height == 512

\* ------------------------------------------------------------- the state

VARIABLES
    strategy,     \* "sequential" | "pooled" | "cooperative"
    maxRetries,   \* the max_retries argument
    pc,           \* where get_panorama / the tile generator stands
    resolverLog,  \* the answers of get_width_and_height_from_zoom, in call order
    tiles,        \* the TileInfo sequence iter_tile_info generates
    st,           \* per tile: the state of its fetch
    log,          \* per tile: the outcome of each transport attempt, in order
    waits,        \* per tile: the number of sleep(2) calls performed
    idx,          \* the tile the generator is at (fetching, or just yielded)
    observed,     \* pooled: the futures as_completed has handed out
    lateStarts,   \* pooled: tiles whose fetch began after a failure was observed
    pasted,       \* the pastes done on the canvas, in order
    err,          \* the exception that left get_panorama, if any
    runs          \* the results of iter_tile_info run by itself, in run order

vars == <<strategy, maxRetries, pc, resolverLog, tiles, st, log, waits, idx,
          observed, lateStarts, pasted, err, runs>>

Strategies == {"sequential", "pooled", "cooperative"}

\* Grid dimensions a resolver answer may carry in a download under strategy s.
MaxTilesOf(s) == IF s = "pooled" THEN MaxPoolTiles ELSE MaxTiles
MaxRetriesOf(s) == IF s = "pooled" THEN MaxPoolRetries ELSE MaxRetriesBound
Dims(s) == {d \in (1..MaxTilesOf(s)) \X (1..MaxTilesOf(s)) : d[1] * d[2] <= MaxTilesOf(s)}

Fail == [kind |-> "fail", w |-> 0, h |-> 0]
FloatAnswer == [kind |-> "float", w |-> 0, h |-> 0]
IntAnswer(d) == [kind |-> "int", w |-> d[1], h |-> d[2]]

\* What one call of the resolver can produce: it raises (the request or the
\* parsing of the metadata document fails); it returns the float quotients of
\* line 51 (width/512, height/512); or, with the resolver substituted by a
\* collaborator honouring the (int, int) signature, a pair of positive integers.
ResolverAnswers == {Fail, FloatAnswer} \cup {IntAnswer(d) : d \in Dims(strategy)}

\* What one transport attempt of a tile can produce: a decodable image, a
\* connection error (the exception the loop catches), or a response that
\* Image.open rejects (an exception the loop does not catch).
Outcomes == {"success", "transient", "malformed"}

NoUrl == <<>>
NoErr == [kind |-> "none", url |-> NoUrl, cause |-> "none"]

\* ------------------------------------------------------- pure functions

make_download_url(x, y) == <<"cbk0.google.com/cbk", "output=tile", x, y>>

\* range(n): 0, 1, ..., n-1.
RangeUpTo(n) == [i \in 1..(n + 1) |-> i - 1]
Range(n) == [i \in 1..n |-> i - 1]

RECURSIVE ProductFrom(_, _, _)
ProductFrom(A, B, i) ==
    IF i > Len(A) THEN <<>>
    ELSE [j \in 1..Len(B) |-> <<A[i], B[j]>>] \o ProductFrom(A, B, i + 1)

\* The second factor outermost.
ProductSwapped(A, B) ==
    LET P == ProductFrom(B, A, 1) IN [k \in 1..Len(P) |-> <<P[k][2], P[k][1]>>]
\* itertools.product(A, B): the first factor outermost, the second fastest.
Product(A, B) == ProductFrom(A, B, 1)

\* The TileInfo sequence of iter_tile_info for an integer answer (w, h).
TileInfos(w, h) ==
    LET P == Product(Range(w), Range(h)) IN
    [k \in 1..Len(P) |->
        [x |-> P[k][1], y |-> P[k][2], fileurl |-> make_download_url(P[k][1], P[k][2])]]

\* for _ in range(max_retries): is there another iteration after n of them?
MoreAttemptsOffByOne(n, max) == n <= max
MoreAttempts(n, max) == n < max

\* Every exception caught and retried.
AfterAttemptRetryAll(o) == IF o = "success" THEN "ok" ELSE "ready"
\* The state of a fetch after a loop iteration whose attempt had outcome o:
\* the image is returned, the exception is caught and the loop goes on, or
\* the exception leaves the loop.
AfterAttempt(o) ==
    CASE o = "success"   -> "ok"
      [] o = "transient" -> "ready"
      [] o = "malformed" -> "decodeErr"

\* The sleep(2) calls of a loop iteration whose attempt had outcome o.
Sleeps(o) == IF o = "transient" THEN 1 ELSE 0

Failed(s) == s \in {"exhausted", "decodeErr"}
Ended(s) == s = "ok" \/ Failed(s)
Running(s) == s = "ready"

\* Image.new / range() reject anything but an int; a resolver failure propagates.
RaisesOnlyTypeError(ans) == ans.kind = "float"
Raises(ans) == ans.kind # "int"

ResolverError(ans) ==
    IF ans.kind = "fail"
    THEN [kind |-> "MetadataUnavailable", url |-> NoUrl, cause |-> "resolver"]
    ELSE [kind |-> "TypeError", url |-> NoUrl, cause |-> "float"]

\* The exception a fetch that ended in state s raises.
FetchError(s) ==
    IF s = "exhausted"
    THEN [kind |-> "MaxRetriesExceeded", url |-> NoUrl, cause |-> "exhausted"]
    ELSE [kind |-> "DecodeError", url |-> NoUrl, cause |-> "decodeErr"]

\* future_to_tile[future]
FirstTile(t) == tiles[1]
FutureToTile(t) == tiles[t]

\* raise Exception(f"Failed to download tile {info.fileurl} due to Exception: {exc}")
AggregateError(t) ==
    [kind |-> "Aggregate", url |-> FutureToTile(t).fileurl, cause |-> st[t]]

\* future.result() raises what the worker's fetch raised.
FutureRaisesOnlyExhausted(s) == s = "exhausted"
FutureRaises(s) == Failed(s)

\* The box derived from the position of arrival.
PasteAtArrival(info) ==
    [tile |-> <<info.x, info.y>>, box |-> <<Len(pasted) * tile_width, 0>>]
\* The box of panorama.paste for a tile.
PasteOf(info) ==
    [tile |-> <<info.x, info.y>>, box |-> <<info.x * tile_width, info.y * tile_height>>]

SkipIndex(i) == i + 2
NextIndex(i) == i + 1

\* image = fetch_panorama_tile(info, max_retries) returned: the yield is reached.
ReturnedOrRaised(s) == Ended(s)
Returned(s) == s = "ok"

Tiles == DOMAIN tiles

\* executor.shutdown(wait=True): every work item has run and every worker
\* thread has been joined.
ShutdownWithoutWait == TRUE
ShutdownMayReturn == \A t \in Tiles : Ended(st[t])

\* ------------------------------------------------------------------ Init

Init ==
    /\ strategy \in Strategies
    /\ maxRetries \in (-1)..MaxRetriesOf(strategy)
    /\ pc = "start"
    /\ resolverLog = <<>>
    /\ tiles = <<>>
    /\ st = <<>>
    /\ log = <<>>
    /\ waits = <<>>
    /\ idx = 0
    /\ observed = {}
    /\ lateStarts = {}
    /\ pasted = <<>>
    /\ err = NoErr
    /\ runs = <<>>

\* --------------------------------------------------------- the assembler

\* get_panorama / get_panorama_async up to the for loop: the resolver is
\* called and the canvas allocated.
GetPanoramaStart ==
    /\ pc = "start"
    /\ \E ans \in ResolverAnswers :
        /\ resolverLog' = Append(resolverLog, ans)
        /\ IF Raises(ans)
           THEN /\ pc' = "raised"
                /\ err' = ResolverError(ans)
           ELSE /\ pc' = "iter"
                /\ err' = err
    /\ UNCHANGED <<runs, strategy, maxRetries, tiles, st, log, waits, idx, observed,
                   lateStarts, pasted>>

\* The first next() on the tile generator: iter_tile_info calls the resolver
\* again and enumerates the grid.  Sequential and cooperative: the fetch of
\* the first tile begins.  Pooled: the executor is created and the submitting
\* of the tiles begins.
IterTileInfo ==
    /\ pc = "iter"
    /\ \E ans \in ResolverAnswers :
        /\ resolverLog' = Append(resolverLog, ans)
        /\ IF Raises(ans)
           THEN /\ pc' = "raised"
                /\ err' = ResolverError(ans)
                /\ UNCHANGED <<tiles, st, log, waits, idx>>
           ELSE LET T == TileInfos(ans.w, ans.h) IN
                /\ tiles' = T
                /\ log' = [t \in DOMAIN T |-> <<>>]
                /\ waits' = [t \in DOMAIN T |-> 0]
                /\ err' = err
                /\ IF strategy = "pooled"
                   THEN /\ pc' = "submitting"
                        /\ idx' = 0
                        /\ st' = [t \in DOMAIN T |-> "idle"]
                   ELSE /\ pc' = "fetching"
                        /\ idx' = 1
                        /\ st' = [t \in DOMAIN T |-> IF t = 1 THEN "ready" ELSE "idle"]
    /\ UNCHANGED <<runs, strategy, maxRetries, observed, lateStarts, pasted>>

\* panorama.paste(...) of the tile just yielded, then the generator resumes:
\* the next tile's fetch begins, or the next future is awaited, or the
\* generator is exhausted and get_panorama returns the canvas.
Paste ==
    /\ pc = "paste"
    /\ pasted' = Append(pasted, PasteOf(tiles[idx]))
    /\ IF strategy = "pooled"
       THEN /\ pc' = IF observed = Tiles THEN "returned" ELSE "waiting"
            /\ UNCHANGED <<idx, st>>
       ELSE LET n == NextIndex(idx) IN
            /\ idx' = n
            /\ IF n \in Tiles
               THEN /\ pc' = "fetching"
                    /\ st' = [st EXCEPT ![n] = "ready"]
               ELSE /\ pc' = "returned"
                    /\ st' = st
    /\ UNCHANGED <<runs, strategy, maxRetries, resolverLog, tiles, log, waits, observed,
                   lateStarts, err>>

\* ------------------------------------------------------- the tile fetcher

\* One iteration of the retry loop: requests.get / async_client.get and
\* Image.open, and in the except branch time.sleep(2) / asyncio.sleep(2).
Attempt(t) ==
    /\ st[t] = "ready"
    /\ MoreAttempts(Len(log[t]), maxRetries)
    /\ \E o \in Outcomes :
        /\ log' = [log EXCEPT ![t] = Append(@, o)]
        /\ waits' = [waits EXCEPT ![t] = @ + Sleeps(o)]
        /\ st' = [st EXCEPT ![t] = AfterAttempt(o)]
    /\ UNCHANGED <<runs, strategy, maxRetries, pc, resolverLog, tiles, idx,
                   observed, lateStarts, pasted, err>>

\* The loop is over: raise ...("Max retries exceeded.").
Exhaust(t) ==
    /\ st[t] = "ready"
    /\ ~MoreAttempts(Len(log[t]), maxRetries)
    /\ st' = [st EXCEPT ![t] = "exhausted"]
    /\ UNCHANGED <<runs, strategy, maxRetries, pc, resolverLog, tiles, log, waits, idx,
                   observed, lateStarts, pasted, err>>

\* ------------------------------- the orchestrator, sequential/cooperative

\* The fetch returned an image: yield Tile(...).
YieldTile ==
    /\ pc = "fetching"
    /\ Returned(st[idx])
    /\ pc' = "paste"
    /\ UNCHANGED <<runs, strategy, maxRetries, resolverLog, tiles, st, log, waits, idx,
                   observed, lateStarts, pasted, err>>

\* The fetch raised: the exception leaves the generator and get_panorama.
FetchRaises ==
    /\ pc = "fetching"
    /\ Failed(st[idx])
    /\ pc' = "raised"
    /\ err' = FetchError(st[idx])
    /\ UNCHANGED <<runs, strategy, maxRetries, resolverLog, tiles, st, log, waits, idx,
                   observed, lateStarts, pasted>>

\* --------------------------------------------- the orchestrator, pooled

\* executor.submit(fetch_panorama_tile, info, max_retries) for the next info of
\* the dict comprehension; after the last one, as_completed is entered.
Submit ==
    /\ pc = "submitting"
    /\ idx' = idx + 1
    /\ st' = [st EXCEPT ![idx + 1] = "queued"]
    /\ pc' = IF idx + 1 = Len(tiles) THEN "waiting" ELSE "submitting"
    /\ UNCHANGED <<runs, strategy, maxRetries, resolverLog, tiles, log, waits, observed,
                   lateStarts, pasted, err>>

\* A free worker thread takes the oldest queued work item and calls the fetch.
WorkerStart(t) ==
    /\ st[t] = "queued"
    /\ \A u \in Tiles : st[u] = "queued" => t <= u
    /\ Cardinality({u \in Tiles : Running(st[u])}) < PoolWorkers
    /\ st' = [st EXCEPT ![t] = "ready"]
    /\ lateStarts' = IF pc \in {"shutdown", "raised"} THEN lateStarts \cup {t}
                     ELSE lateStarts
    /\ UNCHANGED <<runs, strategy, maxRetries, pc, resolverLog, tiles, log, waits, idx,
                   observed, pasted, err>>

\* as_completed hands out a finished future; future.result() returns the image
\* (the tile is yielded) or raises (the aggregate exception is raised, which
\* leaves the with block: executor.shutdown(wait=True) begins).
Observe(t) ==
    /\ pc = "waiting"
    /\ t \notin observed
    /\ Ended(st[t])
    /\ observed' = observed \cup {t}
    /\ idx' = t
    /\ IF FutureRaises(st[t])
       THEN /\ pc' = "shutdown"
            /\ err' = AggregateError(t)
       ELSE /\ pc' = "paste"
            /\ err' = err
    /\ UNCHANGED <<runs, strategy, maxRetries, resolverLog, tiles, st, log, waits,
                   lateStarts, pasted>>

\* shutdown(wait=True) returns once every work item has run; the exception
\* then leaves get_panorama.
ShutdownDone ==
    /\ pc = "shutdown"
    /\ ShutdownMayReturn
    /\ pc' = "raised"
    /\ UNCHANGED <<runs, strategy, maxRetries, resolverLog, tiles, st, log, waits, idx,
                   observed, lateStarts, pasted, err>>

\* ------------------------------------------------------------------ Next

Next ==
    \/ GetPanoramaStart
    \/ IterTileInfo
    \/ Paste
    \/ YieldTile
    \/ FetchRaises
    \/ Submit
    \/ ShutdownDone
    \/ \E t \in Tiles : Attempt(t)
    \/ \E t \in Tiles : Exhaust(t)
    \/ \E t \in Tiles : WorkerStart(t)
    \/ \E t \in Tiles : Observe(t)

Spec == Init /\ [][Next]_vars

\* Every network attempt, every sleep and every step of a thread finishes:
\* a download does not stop while one of its steps can be taken.
FairSpec == Spec /\ WF_vars(Next)

\* ------------------------------------------- the tile locator by itself

\* iter_tile_info(pano_id, zoom) run to its end, MaxRuns times on the same
\* arguments: each run calls the resolver and yields the TileInfos of its
\* answer, or raises.
InitLocator ==
    /\ strategy \in Strategies
    /\ maxRetries = 0
    /\ pc = "locator"
    /\ resolverLog = <<>>
    /\ tiles = <<>>
    /\ st = <<>>
    /\ log = <<>>
    /\ waits = <<>>
    /\ idx = 0
    /\ observed = {}
    /\ lateStarts = {}
    /\ pasted = <<>>
    /\ err = NoErr
    /\ runs = <<>>

RunLocator ==
    /\ pc = "locator"
    /\ Len(runs) < MaxRuns
    /\ \E ans \in ResolverAnswers :
        /\ resolverLog' = Append(resolverLog, ans)
        /\ runs' = Append(runs, IF Raises(ans)
                                THEN [raised |-> ResolverError(ans), yielded |-> <<>>]
                                ELSE [raised |-> NoErr, yielded |-> TileInfos(ans.w, ans.h)])
    /\ UNCHANGED <<strategy, maxRetries, pc, tiles, st, log, waits, idx, observed,
                   lateStarts, pasted, err>>

NextLocator == RunLocator

SpecLocator == InitLocator /\ [][NextLocator]_vars

\* ---------------------------------------------------------------- claims

AllTransient(l) == \A i \in DOMAIN l : l[i] = "transient"

\* C1: for max_retries >= 1 a fetch never makes more than max_retries
\* attempts; every attempt but the last one failed transiently (no attempt
\* follows a success); a fetch whose last attempt succeeded has returned the
\* tile, in particular after max_retries - 1 transient failures; and a fetch
\* ends exhausted exactly when all of its max_retries attempts failed
\* transiently.
C1_RetryBound ==
    maxRetries >= 1 =>
        \A t \in Tiles :
            LET n == Len(log[t]) IN
            /\ n <= maxRetries
            /\ \A i \in 1..(n - 1) : log[t][i] = "transient"
            /\ (n > 0 /\ log[t][n] = "success") <=> st[t] = "ok"
            /\ st[t] = "exhausted" => (n = maxRetries /\ AllTransient(log[t]))
            /\ (Ended(st[t]) /\ n = maxRetries /\ AllTransient(log[t]))
                   => st[t] = "exhausted"

\* One fetch succeeded on its last allowed attempt, after max_retries - 1
\* transient failures, and another one is exhausted.
C1_Witness ==
    /\ maxRetries >= 2
    /\ \E t, u \in Tiles :
        /\ st[t] = "ok" /\ Len(log[t]) = maxRetries
        /\ st[u] = "exhausted"

\* C2: an exhausted fetch has performed exactly max_retries - 1 backoff waits
\* (none after its last attempt; none at all with max_retries = 1).
C2_NoBackoffAfterLastAttempt ==
    \A t \in Tiles :
        (maxRetries >= 1 /\ st[t] = "exhausted") => waits[t] = maxRetries - 1

\* The answer iter_tile_info enumerated the grid from.
GridAnswer == resolverLog[2]
Enumerated == Len(resolverLog) = 2 /\ GridAnswer.kind = "int"

\* C3: for a resolved grid W x H the locator produces exactly W*H tile
\* requests, every coordinate inside [0,W) x [0,H), and every (column, row)
\* pair of the rectangle exactly once.
C3_LocatorCoversGrid ==
    Enumerated =>
        LET W == GridAnswer.w
            H == GridAnswer.h
        IN  /\ Len(tiles) = W * H
            /\ \A k \in Tiles : tiles[k].x \in 0..(W - 1) /\ tiles[k].y \in 0..(H - 1)
            /\ \A x \in 0..(W - 1), y \in 0..(H - 1) :
                   Cardinality({k \in Tiles : tiles[k].x = x /\ tiles[k].y = y}) = 1

\* A 2 x 2 grid has been enumerated.
C3_Witness ==
    Enumerated /\ GridAnswer.w = 2 /\ GridAnswer.h = 2 /\ Len(tiles) = 4

\* C4 as claimed: row-major order, the column varying fastest.
C4_RowMajorOrder ==
    \A i, j \in Tiles :
        i < j <=> \/ tiles[i].y < tiles[j].y
                  \/ tiles[i].y = tiles[j].y /\ tiles[i].x < tiles[j].x

\* C4 as amended: column-major order, the row varying fastest: (c1, r1) is
\* yielded before (c2, r2) exactly when c1 < c2, or c1 = c2 and r1 < r2.
C4_ColumnMajorOrder ==
    \A i, j \in Tiles :
        i < j <=> \/ tiles[i].x < tiles[j].x
                  \/ tiles[i].x = tiles[j].x /\ tiles[i].y < tiles[j].y

\* A 2 x 2 grid, where the two orders differ: the second tile is (0, 1).
C4_Witness ==
    /\ Enumerated /\ GridAnswer.w = 2 /\ GridAnswer.h = 2
    /\ tiles[2].x = 0 /\ tiles[2].y = 1

\* C5: when the download has ended the resolver has been called exactly once.
C5_ResolverCalledOnce ==
    pc \in {"returned", "raised"} => Len(resolverLog) = 1

\* C6: once a resolver call has failed the download has ended with that
\* error, and no tile has been submitted, started or attempted.
C6_NoFetchAfterResolverFailure ==
    (\E i \in DOMAIN resolverLog : resolverLog[i].kind = "fail") =>
        /\ pc = "raised"
        /\ err.kind = "MetadataUnavailable"
        /\ \A t \in Tiles : st[t] = "idle" /\ log[t] = <<>>

\* The resolver failed on the call made by iter_tile_info, under the pooled
\* strategy, after the canvas had been allocated.
C6_Witness ==
    /\ strategy = "pooled"
    /\ Len(resolverLog) = 2
    /\ resolverLog[1].kind = "int"
    /\ resolverLog[2].kind = "fail"
    /\ pc = "raised"

\* C7: a download that returns has pasted, whatever the strategy and the
\* completion order, every coordinate of the resolved grid exactly once and
\* nothing else: the pasted set depends on the resolver's answer alone.
C7_SameTilesEveryStrategy ==
    pc = "returned" =>
        LET W == GridAnswer.w
            H == GridAnswer.h
        IN  /\ Len(pasted) = W * H
            /\ \A x \in 0..(W - 1), y \in 0..(H - 1) :
                   Cardinality({k \in DOMAIN pasted : pasted[k].tile = <<x, y>>}) = 1

\* A pooled download of at least three tiles returned having pasted them in
\* another order than the locator's.
C7_Witness ==
    /\ strategy = "pooled"
    /\ pc = "returned"
    /\ Len(pasted) >= 3
    /\ pasted[1].tile # <<tiles[1].x, tiles[1].y>>

PastedTiles == {pasted[k].tile : k \in DOMAIN pasted}
PastedBoxes == {pasted[k].box : k \in DOMAIN pasted}

C9_PooledFailureSurfaced ==
    strategy = "pooled" =>
        /\ pc = "returned" => \A t \in Tiles : ~Failed(st[t])
        /\ (pc \in {"shutdown", "raised"} /\ \E t \in observed : Failed(st[t]))
               => err.kind = "Aggregate"
        /\ err.kind = "Aggregate" =>
               \E t \in observed :
                   /\ Failed(st[t])
                   /\ err.url = tiles[t].fileurl
                   /\ err.cause = st[t]

\* A pooled download ended with the aggregate error of a tile other than the
\* first one, after a tile had been pasted.
C9_Witness ==
    /\ strategy = "pooled"
    /\ pc = "raised"
    /\ err.kind = "Aggregate"
    /\ err.url # tiles[1].fileurl
    /\ Len(pasted) >= 1

\* C10: under the pooled strategy no fetch of a tile that had not started
\* when the orchestrator observed a worker's terminal failure begins
\* afterwards: no transport attempt is ever made for such a tile.
C10_NoStartAfterFailureObserved ==
    \A t \in lateStarts : log[t] = <<>>

\* C11: when the download ends with the error of an exhausted fetch, in any
\* strategy, that error carries the URL (and with it the coordinate) of a
\* tile whose fetch was exhausted.
C11_ExhaustionErrorNamesTile ==
    (pc = "raised" /\ err.cause = "exhausted" /\ maxRetries >= 1) =>
        \E t \in Tiles : st[t] = "exhausted" /\ err.url = tiles[t].fileurl

\* The canvas: for each box pasted on, the tile of the last paste there.
LastPasteAt(b) ==
    CHOOSE k \in DOMAIN pasted :
        /\ pasted[k].box = b
        /\ \A j \in DOMAIN pasted : pasted[j].box = b => j <= k

\* C12: every paste of a tile (c, r) is made at pixel offset (c*512, r*512),
\* wherever it stands in the order of delivery; so the canvas a download
\* returns holds, for every delivery order, tile (c, r) at (c*512, r*512) for
\* every tile of the grid, and nothing anywhere else.
C12_PasteAtOwnCoordinate ==
    /\ \A k \in DOMAIN pasted :
        pasted[k].box = <<pasted[k].tile[1] * 512, pasted[k].tile[2] * 512>>
    /\ pc = "returned" =>
        /\ \A t \in Tiles :
            LET b == <<tiles[t].x * 512, tiles[t].y * 512>> IN
            /\ b \in PastedBoxes
            /\ pasted[LastPasteAt(b)].tile = <<tiles[t].x, tiles[t].y>>
        /\ \A b \in PastedBoxes :
            \E t \in Tiles : b = <<tiles[t].x * 512, tiles[t].y * 512>>

\* A pooled download returned after its first paste was made away from the
\* origin: the tiles were delivered in a scrambled order.
C12_Witness ==
    /\ strategy = "pooled"
    /\ pc = "returned"
    /\ Len(pasted) >= 2
    /\ pasted[1].box # <<0, 0>>
    /\ pasted[Len(pasted)].box = <<0, 0>>

\* C13: two runs of iter_tile_info on the same (pano_id, zoom) give the same
\* result: the same TileInfos in the same order (and one run raises only if
\* the other does).
C13_LocatorIdempotent ==
    \A i, j \in DOMAIN runs :
        /\ runs[i].yielded = runs[j].yielded
        /\ (runs[i].raised = NoErr) <=> (runs[j].raised = NoErr)

\* The tiles yielded so far, in order: those pasted, and the one just yielded.
Yielded ==
    [k \in DOMAIN pasted |-> pasted[k].tile]
        \o (IF pc = "paste" THEN <<(<<tiles[idx].x, tiles[idx].y>>)>> ELSE <<>>)

\* C14: an attempt whose response cannot be decoded is the last attempt of
\* its fetch, whatever is left of the retry budget: the fetch has ended with
\* the decode error, no sleep was made for that attempt (the sleeps are those
\* of the transient failures before it), and under the sequential and
\* cooperative strategies the error that leaves the download is that error.
C14_DecodeFailureNotRetried ==
    \A t \in Tiles :
        (\E i \in DOMAIN log[t] : log[t][i] = "malformed") =>
            /\ log[t][Len(log[t])] = "malformed"
            /\ \A i \in 1..(Len(log[t]) - 1) : log[t][i] = "transient"
            /\ st[t] = "decodeErr"
            /\ waits[t] = Len(log[t]) - 1
            /\ (strategy # "pooled" /\ pc = "raised") => err.kind = "DecodeError"

\* A fetch ended on a decode failure at its first attempt with retries left,
\* and the download ended.
C14_Witness ==
    /\ maxRetries >= 2
    /\ pc = "raised"
    /\ \E t \in Tiles : st[t] = "decodeErr" /\ Len(log[t]) = 1 /\ waits[t] = 0

\* C15: under the sequential strategy, once the fetch of a tile has ended in
\* a terminal error, no later tile is ever requested or attempted, nothing
\* more is yielded and nothing more is pasted: the tiles before it are the
\* only ones yielded and pasted, and the download is ending with the error.
C15_SequentialAbortsAtOnce ==
    strategy = "sequential" =>
        \A t \in Tiles :
            Failed(st[t]) =>
                /\ pc \in {"fetching", "raised"}
                /\ idx = t
                /\ \A u \in Tiles : u > t => (st[u] = "idle" /\ log[u] = <<>>)
                /\ Len(pasted) = t - 1
                /\ Len(Yielded) = t - 1

\* A sequential download ended on the error of its second tile of at least
\* three, the first one pasted.
C15_Witness ==
    /\ strategy = "sequential"
    /\ pc = "raised"
    /\ Len(tiles) >= 3
    /\ Failed(st[2])
    /\ Len(pasted) = 1

\* C16: under the sequential and the cooperative strategies at most one
\* fetch is in flight, the tiles yielded are a prefix of the locator's
\* sequence, and a tile is requested (a fortiori attempted) only after every
\* tile before it has been yielded.
C16_InOrderOneInFlight ==
    strategy # "pooled" =>
        /\ Cardinality({t \in Tiles : Running(st[t])}) <= 1
        /\ Len(Yielded) <= Len(tiles)
        /\ \A k \in DOMAIN Yielded : Yielded[k] = <<tiles[k].x, tiles[k].y>>
        /\ \A t \in Tiles :
            (st[t] # "idle" \/ log[t] # <<>>) => Len(Yielded) >= t - 1

\* A cooperative download has yielded two tiles and made an attempt for the
\* third.
C16_Witness ==
    /\ strategy = "cooperative"
    /\ Len(pasted) = 2
    /\ Len(tiles) >= 3
    /\ log[3] # <<>>

\* C17: every paste falls inside the canvas: the tile pasted has its column
\* and its row inside the grid dimensions the canvas was sized from, whatever
\* the resolver answered on each call.
C17_PastesInsideCanvas ==
    \A k \in DOMAIN pasted :
        /\ 0 <= pasted[k].tile[1] /\ pasted[k].tile[1] < resolverLog[1].w
        /\ 0 <= pasted[k].tile[2] /\ pasted[k].tile[2] < resolverLog[1].h
        /\ pasted[k].box[1] + tile_width <= resolverLog[1].w * tile_width
        /\ pasted[k].box[2] + tile_height <= resolverLog[1].h * tile_height

RECURSIVE SumAttempts(_)
SumAttempts(n) == IF n = 0 THEN 0 ELSE Len(log[n]) + SumAttempts(n - 1)
\* The fetch attempts made so far, over all tiles.
TotalAttempts == SumAttempts(Len(tiles))

Max0(n) == IF n > 0 THEN n ELSE 0
Done == pc \in {"returned", "raised"}
\* gridWidth * gridHeight of the grid the tiles are enumerated from (0 before
\* the enumeration, and when the resolver gave no usable dimensions).
GridSize ==
    IF Len(resolverLog) = 2 /\ ~Raises(resolverLog[2])
    THEN resolverLog[2].w * resolverLog[2].h
    ELSE 0

\* C18 as stated: every download ends, with the canvas or with an error, and
\* the attempts made over all tiles are at most
\* gridWidth * gridHeight * max_retries.
C18_AttemptsAtMostProduct ==
    /\ <>Done
    /\ [](TotalAttempts <= GridSize * maxRetries)

\* C18, amended: every download ends, with the canvas or with an error, and at
\* every moment the attempts made over all tiles are at most
\* gridWidth * gridHeight * max(max_retries, 0).
C18_Terminates ==
    /\ <>Done
    /\ [](TotalAttempts <= GridSize * Max0(maxRetries))

\* A download returned after every tile of a grid of at least two tiles took
\* all of its max_retries >= 2 attempts: the bound is attained.
C18_Witness ==
    /\ pc = "returned"
    /\ maxRetries >= 2
    /\ Len(tiles) >= 2
    /\ TotalAttempts = Len(tiles) * maxRetries

\* C19: with max_retries <= 0 no attempt and no sleep is ever made, a fetch
\* that was started can only end exhausted, and the download never returns a
\* canvas.
C19_NoAttemptWithoutRetries ==
    maxRetries <= 0 =>
        /\ pc # "returned"
        /\ pasted = <<>>
        /\ \A t \in Tiles :
            /\ log[t] = <<>>
            /\ waits[t] = 0
            /\ st[t] \in {"idle", "queued", "ready", "exhausted"}
        /\ (pc = "raised" /\ tiles # <<>>) =>
               (err.cause = "exhausted" /\ \E t \in Tiles : st[t] = "exhausted")

\* With max_retries <= 0 a download of a grid of at least two tiles ended
\* with the exhaustion error of a fetch that made no attempt.
C19_Witness ==
    /\ maxRetries <= 0
    /\ pc = "raised"
    /\ Len(tiles) >= 2
    /\ \E t \in Tiles : st[t] = "exhausted" /\ log[t] = <<>>

\* C20: under the pooled strategy every tile has been submitted before the
\* first tile is yielded, and when the download has ended (canvas or error)
\* every submitted fetch has ended: none is queued or running.
C20_PoolDrainedAtEnd ==
    strategy = "pooled" =>
        /\ (Yielded # <<>> \/ observed # {}) => \A t \in Tiles : st[t] # "idle"
        /\ Done => \A t \in Tiles : Ended(st[t])

\* A pooled download ended with the aggregate error after a fetch that began
\* during the shutdown had run to its end.
C20_Witness ==
    /\ strategy = "pooled"
    /\ pc = "raised"
    /\ lateStarts # {}
    /\ \A t \in lateStarts : Ended(st[t])

====
